---- MODULE Spec2Model ----
(***************************************************************************)
(* Model of the integration endpoints of routers/service.py over the       *)
(* integrations table of database/models.py.                               *)
(*                                                                         *)
(* A Python str is a sequence of one-character strings, so that str.strip  *)
(* and int() are computed rather than assumed.  An ORM object is a record  *)
(* holding exactly the keyword arguments its constructor was given: a      *)
(* column missing from the record is NULL at INSERT time.  A spreadsheet   *)
(* cell is what pandas yields for it: NaN for an empty cell, a str, or an  *)
(* int.                                                                    *)
(***************************************************************************)
EXTENDS Integers, Sequences, FiniteSets, TLC

VARIABLES store, nextId, up, last

vars == <<store, nextId, up, last>>

(* ------------------------------ bounds -------------------------------- *)

\* rows of an uploaded sheet
MaxRows == 2

\* INSERTs the single-record create endpoint may perform
MaxId == 2

(* --------------------------- Python values ---------------------------- *)

Whitespace == {" ", "\t"}

DigitValue == [c \in {"0", "1", "2", "3", "4", "5", "6", "7", "8", "9"} |->
                 CASE c = "0" -> 0 [] c = "1" -> 1 [] c = "2" -> 2 [] c = "3" -> 3
                   [] c = "4" -> 4 [] c = "5" -> 5 [] c = "6" -> 6 [] c = "7" -> 7
                   [] c = "8" -> 8 [] c = "9" -> 9]

DigitChar == [d \in 0..9 |-> CHOOSE c \in DOMAIN DigitValue : DigitValue[c] = d]

RECURSIVE LStrip(_)
LStrip(s) == IF s # <<>> /\ Head(s) \in Whitespace THEN LStrip(Tail(s)) ELSE s

RECURSIVE RStrip(_)
RStrip(s) == IF s # <<>> /\ s[Len(s)] \in Whitespace
             THEN RStrip(SubSeq(s, 1, Len(s) - 1)) ELSE s

\* str.strip()
Strip(s) == RStrip(LStrip(s))

RECURSIVE NatDigits(_)
NatDigits(n) == IF n < 10 THEN <<DigitChar[n]>>
                ELSE Append(NatDigits(n \div 10), DigitChar[n % 10])

RECURSIVE DigitsNat(_)
DigitsNat(s) == IF s = <<>> THEN 0
                ELSE 10 * DigitsNat(SubSeq(s, 1, Len(s) - 1)) + DigitValue[s[Len(s)]]

NaN == [t |-> "nan"]
StrCell(s) == [t |-> "str", v |-> s]
IntCell(n) == [t |-> "int", v |-> n]

\* str(cell)
PyStr(c) == CASE c.t = "nan" -> <<"n", "a", "n">>
              [] c.t = "str" -> c.v
              [] c.t = "int" -> IF c.v < 0 THEN <<"-">> \o NatDigits(-c.v)
                                ELSE NatDigits(c.v)

\* int(cell): [ok |-> TRUE, v |-> n], or [ok |-> FALSE] for ValueError
PyInt(c) == CASE c.t = "nan" -> [ok |-> FALSE]
              [] c.t = "int" -> [ok |-> TRUE, v |-> c.v]
              [] c.t = "str" ->
                   LET s == Strip(c.v)
                       signed == s # <<>> /\ Head(s) \in {"+", "-"}
                       d == IF signed THEN Tail(s) ELSE s
                   IN IF d # <<>> /\ \A i \in 1..Len(d) : d[i] \in DOMAIN DigitValue
                      THEN [ok |-> TRUE,
                            v |-> IF signed /\ Head(s) = "-" THEN -DigitsNat(d)
                                  ELSE DigitsNat(d)]
                      ELSE [ok |-> FALSE]

(* ------------------------- integrations table ------------------------- *)

Statuses == {"active", "inactive", "pending", "failed"}

\* the columns declared nullable=False
NonNullable == {"integration_key", "user_id", "account_id", "private_key_file", "email"}

NotNullOK(rec) == NonNullable \subseteq DOMAIN rec

\* mutant: the column declared without unique=True
UniqueOKUndeclared(recs) == TRUE

\* unique=True on integration_key
UniqueOK(recs) == \A a, b \in recs :
                    a.integration_key = b.integration_key => a = b

\* the row an INSERT writes: the autoincrement key and the column default
InsertedRow(obj, id) ==
    [c \in DOMAIN obj \cup {"integration_id", "status"} |->
        IF c = "integration_id" THEN id
        ELSE IF c \in DOMAIN obj THEN obj[c]
        ELSE "pending"]

\* the rows a flush of the pending objects would write
NewRows(nid, pending) == {InsertedRow(pending[i], nid + i - 1) : i \in 1..Len(pending)}

\* whether the store accepts the flush
Accepts(st, nid, pending) ==
    /\ \A i \in 1..Len(pending) : NotNullOK(pending[i])
    /\ UniqueOK(st \cup NewRows(nid, pending))

\* Session.commit() of added objects: one transaction, all rows or none
CommitInserts(st, nid, pending) ==
    IF Accepts(st, nid, pending)
    THEN [ok |-> TRUE, store |-> st \cup NewRows(nid, pending), nextId |-> nid + Len(pending)]
    ELSE [ok |-> FALSE, store |-> st, nextId |-> nid]

\* Session.commit() of one modified row
CommitUpdate(st, old, new) ==
    LET st2 == (st \ {old}) \cup {new}
    IN IF NotNullOK(new) /\ UniqueOK(st2)
       THEN [ok |-> TRUE, store |-> st2]
       ELSE [ok |-> FALSE, store |-> st]

\* db.query(Integration).filter(integration_id == id).first()
Found(st, id) == {r \in st : r.integration_id = id}

(* ------------------------------ responses ----------------------------- *)

response_formatter(status_code, message, data, error_code) ==
    [status_code |-> status_code, error_code |-> error_code,
     message |-> message, data |-> data]

\* an exception that leaves the handler
Raised(kind) == [exception |-> kind]

IsEnvelope(r) == DOMAIN r = {"status_code", "error_code", "message", "data"}

\* None as an error_code
None == "None"

\* None as data; data is otherwise a record
NoData == [none |-> TRUE]

(* ------------------------------- callers ------------------------------ *)

Users == {1, 2}

\* decoded token payloads; the user_id key may be absent
Tokens == [is_admin : BOOLEAN] \cup [is_admin : BOOLEAN, user_id : Users]

Admin == [is_admin |-> TRUE, user_id |-> 1]

Member(u) == [is_admin |-> FALSE, user_id |-> u]

HasUser(t) == "user_id" \in DOMAIN t

\* mutant: the ownership comparison left out
AccessAnyUser(t, integ) ==
    IF t.is_admin THEN "allow"
    ELSE IF ~HasUser(t) THEN "KeyError"
    ELSE "allow"

\* not token_data.get("is_admin") and token_data["user_id"] != integration.user_id
\* "deny", "allow", or "KeyError" when the subscript has no key to read
Access(t, integ) ==
    IF t.is_admin THEN "allow"
    ELSE IF ~HasUser(t) THEN "KeyError"
    ELSE IF t.user_id # integ.user_id THEN "deny"
    ELSE "allow"

(* --------------------------- request payloads ------------------------- *)

Keys == {<<"k", "1">>, <<"k", "2">>}

\* IntegrationCreate bodies: pydantic has already required every field
Payloads == [integration_key : Keys, account_id : {7}, private_key_file : {"pem"},
             email : {<<"a", "@", "b">>}, status : Statuses]

\* path parameters: the ids ever issued, and one never issued
Ids == 1..(MaxId + 1)

Request(op, t, id) == [op |-> op, token |-> t, id |-> id]

(* ------------------------- single-record handlers --------------------- *)

\* POST /integrations
create_integration(t, body) ==
    /\ nextId <= MaxId
    /\ IF ~HasUser(t)
       THEN /\ last' = [req |-> Request("create", t, 0),
                        resp |-> response_formatter(401, <<"Unauthorized">>, NoData, "AUTH_401")]
            /\ UNCHANGED <<store, nextId>>
       ELSE LET new_integration ==
                    [integration_key |-> body.integration_key,
                     user_id |-> t.user_id,
                     account_id |-> body.account_id,
                     private_key_file |-> body.private_key_file,
                     email |-> body.email,
                     status |-> body.status]
                c == CommitInserts(store, nextId, <<new_integration>>)
            IN /\ store' = c.store
               /\ nextId' = c.nextId
               /\ last' = [req |-> Request("create", t, 0),
                           resp |-> IF c.ok
                                    THEN response_formatter(201, <<"Integration created successfully">>,
                                                            InsertedRow(new_integration, nextId), None)
                                    ELSE Raised("IntegrityError")]
    /\ UNCHANGED up

\* GET /get-all-integrations
get_integrations(t) ==
    /\ last' = [req |-> Request("get_all", t, 0),
                resp |-> IF ~t.is_admin
                         THEN response_formatter(403, <<"Permission denied">>, NoData, "PERMISSION_403")
                         ELSE IF store = {}
                         THEN response_formatter(404, <<"No integrations found">>, NoData, "DATA_404")
                         ELSE response_formatter(200, <<"Integrations retrieved successfully">>,
                                                 [integrations |-> store], None)]
    /\ UNCHANGED <<store, nextId, up>>

NotFound == response_formatter(404, <<"Integration not found">>, NoData, "DATA_404")

AccessDenied == response_formatter(403, <<"Access denied">>, NoData, "PERMISSION_403")

\* GET /get-integrations/{integration_id}
get_integration(t, id) ==
    /\ last' = [req |-> Request("get", t, id),
                resp |-> IF Found(store, id) = {} THEN NotFound
                         ELSE LET integration == CHOOSE r \in Found(store, id) : TRUE
                                  a == Access(t, integration)
                              IN IF a = "KeyError" THEN Raised("KeyError")
                                 ELSE IF a = "deny" THEN AccessDenied
                                 ELSE response_formatter(200, <<"Integration retrieved successfully">>,
                                                         integration, None)]
    /\ UNCHANGED <<store, nextId, up>>

\* PUT /edit-integrations/{integration_id}
update_integration(t, id, body) ==
    /\ IF Found(store, id) = {}
       THEN /\ last' = [req |-> Request("update", t, id), resp |-> NotFound]
            /\ UNCHANGED store
       ELSE LET integration == CHOOSE r \in Found(store, id) : TRUE
                a == Access(t, integration)
                new == [integration EXCEPT !.integration_key = body.integration_key,
                                           !.account_id = body.account_id,
                                           !.private_key_file = body.private_key_file,
                                           !.email = body.email,
                                           !.status = body.status]
                c == CommitUpdate(store, integration, new)
            IN IF a = "KeyError"
               THEN /\ last' = [req |-> Request("update", t, id), resp |-> Raised("KeyError")]
                    /\ UNCHANGED store
               ELSE IF a = "deny"
               THEN /\ last' = [req |-> Request("update", t, id), resp |-> AccessDenied]
                    /\ UNCHANGED store
               ELSE /\ store' = c.store
                    /\ last' = [req |-> Request("update", t, id),
                                resp |-> IF c.ok
                                         THEN response_formatter(200, <<"Integration updated successfully">>,
                                                                 new, None)
                                         ELSE Raised("IntegrityError")]
    /\ UNCHANGED <<nextId, up>>

\* DELETE /delete-integrations/{integration_id}
delete_integration(t, id) ==
    /\ IF Found(store, id) = {}
       THEN /\ last' = [req |-> Request("delete", t, id), resp |-> NotFound]
            /\ UNCHANGED store
       ELSE LET integration == CHOOSE r \in Found(store, id) : TRUE
                a == Access(t, integration)
            IN IF a = "KeyError"
               THEN /\ last' = [req |-> Request("delete", t, id), resp |-> Raised("KeyError")]
                    /\ UNCHANGED store
               ELSE IF a = "deny"
               THEN /\ last' = [req |-> Request("delete", t, id), resp |-> AccessDenied]
                    /\ UNCHANGED store
               ELSE /\ store' = store \ {integration}
                    /\ last' = [req |-> Request("delete", t, id),
                                resp |-> response_formatter(200, <<"Integration deleted successfully">>,
                                                            NoData, None)]
    /\ UNCHANGED <<nextId, up>>

\* mutant: the test made on the other status
ToggledStatusFromInactive(s) == IF s = "inactive" THEN "active" ELSE "inactive"

\* "inactive" if integration.status == "active" else "active"
ToggledStatus(s) == IF s = "active" THEN "inactive" ELSE "active"

\* PATCH /integrations/{integration_id}/toggle-status
toggle_integration_status(t, id) ==
    /\ IF Found(store, id) = {}
       THEN /\ last' = [req |-> Request("toggle", t, id), resp |-> NotFound]
            /\ UNCHANGED store
       ELSE LET integration == CHOOSE r \in Found(store, id) : TRUE
                a == Access(t, integration)
                new == [integration EXCEPT !.status = ToggledStatus(integration.status)]
                c == CommitUpdate(store, integration, new)
            IN IF a = "KeyError"
               THEN /\ last' = [req |-> Request("toggle", t, id), resp |-> Raised("KeyError")]
                    /\ UNCHANGED store
               ELSE IF a = "deny"
               THEN /\ last' = [req |-> Request("toggle", t, id), resp |-> AccessDenied]
                    /\ UNCHANGED store
               ELSE /\ store' = c.store
                    /\ last' = [req |-> Request("toggle", t, id),
                                resp |-> IF c.ok
                                         THEN response_formatter(200, <<"Integration status updated to", new.status>>,
                                                  [integration_id |-> new.integration_id,
                                                   new_status |-> new.status], None)
                                         ELSE Raised("IntegrityError")]
    /\ UNCHANGED <<nextId, up>>

(* ------------------------------ bulk upload --------------------------- *)

RequiredColumns == {"Integration Key", "User ID", "Account ID", "Email"}

\* mutant: any required column is taken to be enough
HasSomeRequiredColumn(cols) == RequiredColumns \cap cols # {}

\* required_columns.issubset(set(df.columns))
HasRequiredColumns(cols) == RequiredColumns \subseteq cols

\* mutant: the presence of the flag tested instead of its value
IsAdminKeyPresent(t) == "is_admin" \in DOMAIN t

\* token_data.get("is_admin")
IsAdmin(t) == "is_admin" \in DOMAIN t /\ t.is_admin

Forbidden == [status_code |-> 403, error_code |-> "FORBIDDEN",
              message |-> <<"Permission denied">>, data |-> NoData]

InvalidFile == [status_code |-> 400, error_code |-> "INVALID_FILE",
                message |-> <<"Invalid Excel file format">>, data |-> NoData]

MissingColumns == [status_code |-> 400, error_code |-> "MISSING_COLUMNS",
                   message |-> <<"Excel file must contain Integration Key, User ID, Account ID, Email columns">>,
                   data |-> NoData]

\* row[col], or the KeyError of a column the sheet does not have
HasCell(row, col) == col \in DOMAIN row

\* the body of the try block for one row: the staged object, or the error raised
ValidateRow(row) ==
    IF \E c \in RequiredColumns : ~HasCell(row, c)
    THEN [ok |-> FALSE, error |-> "KeyError"]
    ELSE
    LET integration_key == Strip(PyStr(row["Integration Key"]))
        user_id == PyInt(row["User ID"])
        account_id == PyInt(row["Account ID"])
        email == Strip(PyStr(row["Email"]))
    IN IF ~user_id.ok THEN [ok |-> FALSE, error |-> "ValueError: User ID"]
       ELSE IF ~account_id.ok THEN [ok |-> FALSE, error |-> "ValueError: Account ID"]
       ELSE IF integration_key = <<>> \/ email = <<>>
       THEN [ok |-> FALSE, error |-> "Invalid data: Empty Integration Key or Email"]
       ELSE [ok |-> TRUE,
             obj |-> [integration_key |-> integration_key,
                      user_id |-> user_id.v,
                      account_id |-> account_id.v,
                      email |-> email,
                      status |-> "active"]]

\* mutant: the try block around the loop, so that a failing row ends it
ProcessRowStopping(u) ==
    LET row == u.file.rows[u.idx]
        v == ValidateRow(row)
    IN IF v.ok
       THEN [u EXCEPT !.staged = Append(@, v.obj),
                      !.success_count = @ + 1,
                      !.idx = @ + 1]
       ELSE [u EXCEPT !.failed_records = Append(@, [row |-> row, error |-> v.error]),
                      !.idx = Len(u.file.rows) + 1]

\* one iteration of the loop over df.iterrows()
ProcessRow(u) ==
    LET row == u.file.rows[u.idx]
        v == ValidateRow(row)
    IN IF v.ok
       THEN [u EXCEPT !.staged = Append(@, v.obj),
                      !.success_count = @ + 1,
                      !.idx = @ + 1]
       ELSE [u EXCEPT !.failed_records = Append(@, [row |-> row, error |-> v.error]),
                      !.idx = @ + 1]

\* the 200 response of a finished upload
UploadResult(u) ==
    [status_code |-> 200, error_code |-> None,
     message |-> <<"Successfully uploaded", u.success_count, "integrations">>,
     data |-> IF u.failed_records # <<>> THEN [failed_records |-> u.failed_records]
              ELSE NoData]

\* a request slot before its upload arrives
Idle == [pc |-> "idle"]

\* lines 59-90: authorization, parsing, the header check, the counters
upload_start(r, t, f) ==
    /\ up[r].pc = "idle"
    /\ LET u0 == [pc |-> "done", token |-> t, file |-> f, parsed |-> FALSE, idx |-> 0,
                  staged |-> <<>>, success_count |-> 0, failed_records |-> <<>>,
                  ncommit |-> 0, inserted |-> {}, resp |-> Forbidden]
       IN up' = [up EXCEPT ![r] =
                   IF ~IsAdmin(t) THEN u0
                   ELSE IF ~f.parseable
                   THEN [u0 EXCEPT !.parsed = TRUE, !.resp = InvalidFile]
                   ELSE IF ~HasRequiredColumns(f.columns)
                   THEN [u0 EXCEPT !.parsed = TRUE, !.resp = MissingColumns]
                   ELSE [u0 EXCEPT !.parsed = TRUE, !.pc = "rows", !.idx = 1,
                                   !.resp = Raised("none")]]
    /\ UNCHANGED <<store, nextId, last>>

\* mutant: db.commit() indented into the loop body
upload_row_committing(r) ==
    /\ up[r].pc = "rows"
    /\ up[r].idx <= Len(up[r].file.rows)
    /\ LET u == ProcessRow(up[r])
           c == CommitInserts(store, nextId, u.staged)
       IN /\ store' = c.store
          /\ nextId' = c.nextId
          /\ up' = [up EXCEPT ![r] =
                      IF c.ok
                      THEN [u EXCEPT !.ncommit = @ + 1, !.staged = <<>>,
                                     !.inserted = @ \cup (c.store \ store)]
                      ELSE [u EXCEPT !.ncommit = @ + 1, !.pc = "done",
                                     !.resp = Raised("IntegrityError")]]
    /\ UNCHANGED last

\* lines 92-114: the next row of the sheet
upload_row(r) ==
    /\ up[r].pc = "rows"
    /\ up[r].idx <= Len(up[r].file.rows)
    /\ up' = [up EXCEPT ![r] = ProcessRow(@)]
    /\ UNCHANGED <<store, nextId, last>>

\* lines 116-123: db.commit() after the loop, then the response
upload_commit(r) ==
    /\ up[r].pc = "rows"
    /\ up[r].idx > Len(up[r].file.rows)
    /\ LET c == CommitInserts(store, nextId, up[r].staged)
       IN /\ store' = c.store
          /\ nextId' = c.nextId
          /\ up' = [up EXCEPT ![r] =
                      [@ EXCEPT !.pc = "done",
                                !.ncommit = @ + 1,
                                !.inserted = c.store \ store,
                                !.resp = IF c.ok THEN UploadResult(up[r])
                                         ELSE Raised("IntegrityError")]]
    /\ UNCHANGED last

(* ---------------------------- uploaded sheets ------------------------- *)

AllColumns == RequiredColumns \cup {"Notes"}

Sheet(key, user, account, email) ==
    [c \in AllColumns |->
        CASE c = "Integration Key" -> key
          [] c = "User ID" -> user
          [] c = "Account ID" -> account
          [] c = "Email" -> email
          [] c = "Notes" -> NaN]

Mail == <<"a", "@", "b">>

RowK1 == Sheet(StrCell(<<"k", "1">>), IntCell(1), IntCell(7), StrCell(Mail))

RowK2 == Sheet(StrCell(<<" ", "k", "2", " ">>), StrCell(<<"2">>), IntCell(7),
               StrCell(<<"a", "@", "b", " ">>))

RowEmptyEmail == Sheet(StrCell(<<"k", "2">>), IntCell(1), IntCell(7), NaN)

RowBlankKey == Sheet(StrCell(<<" ", "\t">>), IntCell(1), IntCell(7), StrCell(Mail))

RowBadAccount == Sheet(StrCell(<<"k", "2">>), IntCell(2), StrCell(<<"a", "b", "c">>),
                       StrCell(Mail))

RowNoUser == Sheet(StrCell(<<"k", "1">>), NaN, IntCell(7), StrCell(Mail))

SampleRows == {RowK1, RowK2, RowEmptyEmail, RowBlankKey, RowBadAccount, RowNoUser}

ColumnSets == {RequiredColumns, AllColumns, RequiredColumns \ {"Email"},
               {"Integration Key", "Notes"}}

Restrict(row, cols) == [c \in cols |-> row[c]]

\* the bytes of something that is no spreadsheet
Corrupt == [parseable |-> FALSE, columns |-> {}, rows |-> <<>>]

Workbook(cols, rows) ==
    [parseable |-> TRUE, columns |-> cols,
     rows |-> [i \in 1..Len(rows) |-> Restrict(rows[i], cols)]]

Files == {Corrupt} \cup
         {Workbook(cols, rows) : cols \in ColumnSets,
                                 rows \in UNION {[1..n -> SampleRows] : n \in 0..MaxRows}}

\* sheets that race for the same key, one of them repeating it
RaceFiles == {Workbook(RequiredColumns, <<RowK1>>),
              Workbook(RequiredColumns, <<RowK1, RowK1>>),
              Workbook(RequiredColumns, <<RowBlankKey, RowK2>>),
              Workbook(RequiredColumns, <<RowBadAccount>>)}

UploadSlots == {"u1", "u2"}

(* ----------------------------- specifications ------------------------- *)

NoRequest == [req |-> Request("none", [is_admin |-> FALSE], 0), resp |-> Raised("none")]

\* the single-record endpoints, any caller
InitCrud == store = {} /\ nextId = 1 /\ up = <<>> /\ last = NoRequest

NextCrud ==
    \/ \E t \in Tokens, body \in Payloads : create_integration(t, body)
    \/ \E t \in Tokens : get_integrations(t)
    \/ \E t \in Tokens, id \in Ids : get_integration(t, id)
    \/ \E t \in Tokens, id \in Ids, body \in Payloads : update_integration(t, id, body)
    \/ \E t \in Tokens, id \in Ids : delete_integration(t, id)
    \/ \E t \in Tokens, id \in Ids : toggle_integration_status(t, id)

SpecCrud == InitCrud /\ [][NextCrud]_vars

\* one upload of any sheet by any caller, beside a store that may hold a row
InitImporter == store = {} /\ nextId = 1 /\ up = [r \in {"u1"} |-> Idle] /\ last = NoRequest

NextImporter ==
    \/ \E body \in {p \in Payloads : p.status = "pending" /\ p.integration_key = <<"k", "1">>} :
          create_integration(Member(1), body)
    \/ \E r \in DOMAIN up, t \in Tokens, f \in Files : upload_start(r, t, f)
    \/ \E r \in DOMAIN up : upload_row(r)
    \/ \E r \in DOMAIN up : upload_commit(r)

SpecImporter == InitImporter /\ [][NextImporter]_vars

\* the writers of the store, interleaved: two uploads and the owner's requests
Init == store = {} /\ nextId = 1 /\ up = [r \in UploadSlots |-> Idle] /\ last = NoRequest

Next ==
    \/ \E body \in {p \in Payloads : p.status = "active"} : create_integration(Member(1), body)
    \/ \E id \in Ids, body \in {p \in Payloads : p.status = "active"} :
          update_integration(Member(1), id, body)
    \/ \E id \in Ids : delete_integration(Admin, id)
    \/ \E r \in DOMAIN up, f \in RaceFiles : upload_start(r, Admin, f)
    \/ \E r \in DOMAIN up : upload_row(r)
    \/ \E r \in DOMAIN up : upload_commit(r)

Spec == Init /\ [][Next]_vars

(* -------------------------------- claims ------------------------------ *)

Started(u) == u.pc # "idle"

\* the upload got past authorization, parsing and the header check
ReachedRows(u) == Started(u) /\ u.resp \notin {Forbidden, InvalidFile, MissingColumns}

\* a row as the claim counts it: an empty cell is an empty field
CellText(c) == IF c.t = "nan" THEN <<>> ELSE PyStr(c)

IndividuallyValid(row) ==
    /\ Strip(CellText(row["Integration Key"])) # <<>>
    /\ Strip(CellText(row["Email"])) # <<>>
    /\ PyInt(row["User ID"]).ok
    /\ PyInt(row["Account ID"]).ok

ValidCount(rows) == Cardinality({i \in 1..Len(rows) : IndividuallyValid(rows[i])})

\* C1: after an admin's upload of a well-formed sheet of N rows, K of them
\* individually valid, the request has written exactly K rows, success_count
\* is K, and failed_records has N - K entries (data is null when K = N).
C1_CommittedEqualsValid ==
    \A r \in DOMAIN up :
        (Started(up[r]) /\ up[r].pc = "done" /\ up[r].token.is_admin
            /\ up[r].file.parseable /\ RequiredColumns \subseteq up[r].file.columns)
        => LET u == up[r]
               N == Len(u.file.rows)
               K == ValidCount(u.file.rows)
           IN /\ Cardinality(u.inserted) = K
              /\ u.success_count = K
              /\ Len(u.failed_records) = N - K
              /\ IsEnvelope(u.resp)
              /\ (K = N <=> u.resp.data = NoData)

\* C2: an upload by a caller without the admin flag answers 403 Forbidden,
\* whatever the file; nothing is parsed, no row is processed or staged, nothing
\* is committed, and the step leaves the store as it was.
C2_NonAdminForbidden ==
    [][\A r \in DOMAIN up :
          (up[r].pc = "idle" /\ up'[r].pc # "idle" /\ ~up'[r].token.is_admin)
          => /\ up'[r].pc = "done"
             /\ up'[r].resp = Forbidden
             /\ up'[r].resp.status_code = 403
             /\ ~up'[r].parsed
             /\ up'[r].idx = 0
             /\ up'[r].staged = <<>> /\ up'[r].failed_records = <<>>
             /\ up'[r].ncommit = 0
             /\ store' = store /\ nextId' = nextId]_vars

\* C2 witness: a non-admin was refused a well-formed sheet holding a valid row,
\* beside a store that already holds a row.
C2_Witness ==
    \E r \in DOMAIN up :
        /\ Started(up[r]) /\ ~up[r].token.is_admin
        /\ up[r].resp = Forbidden
        /\ up[r].file.parseable /\ RequiredColumns \subseteq up[r].file.columns
        /\ \E i \in 1..Len(up[r].file.rows) : ValidateRow(up[r].file.rows[i]).ok
        /\ store # {}

\* C3: an admin's upload of bytes that are no spreadsheet answers INVALID_FILE,
\* and of a sheet lacking a required column answers MISSING_COLUMNS; in both
\* cases no row is processed or staged, nothing is committed and the store is
\* as it was, whatever rows the sheet holds.
C3_StructuralFailuresAbort ==
    [][\A r \in DOMAIN up :
          (up[r].pc = "idle" /\ up'[r].pc # "idle" /\ up'[r].token.is_admin)
          => LET u == up'[r]
                 lacking == \E c \in {"Integration Key", "User ID", "Account ID", "Email"} :
                               c \notin u.file.columns
             IN /\ ~u.file.parseable => u.resp = InvalidFile
                /\ (u.file.parseable /\ lacking) => u.resp = MissingColumns
                /\ (~u.file.parseable \/ lacking)
                   => /\ u.pc = "done"
                      /\ u.idx = 0
                      /\ u.staged = <<>> /\ u.failed_records = <<>>
                      /\ u.success_count = 0
                      /\ u.ncommit = 0
                      /\ store' = store /\ nextId' = nextId]_vars

\* C3 witness: an admin's sheet was refused for a missing column although it
\* holds rows.
C3_Witness ==
    \E r \in DOMAIN up :
        /\ Started(up[r]) /\ up[r].token.is_admin
        /\ up[r].resp = MissingColumns
        /\ up[r].file.rows # <<>>
        /\ "Integration Key" \in up[r].file.columns

\* C4: every request ends in the envelope {status_code, error_code, message,
\* data}; no exception leaves a handler.
C4_AlwaysEnvelope ==
    /\ last = NoRequest \/ IsEnvelope(last.resp)
    /\ \A r \in DOMAIN up : (Started(up[r]) /\ up[r].pc = "done") => IsEnvelope(up[r].resp)

\* the failing rows among the first n rows, in file order, with their data
RECURSIVE FailedRowsUpTo(_, _)
FailedRowsUpTo(rows, n) ==
    IF n = 0 THEN <<>>
    ELSE IF ValidateRow(rows[n]).ok THEN FailedRowsUpTo(rows, n - 1)
    ELSE Append(FailedRowsUpTo(rows, n - 1), rows[n])

\* C5: rows are processed one by one in file order and a failing row does not
\* stop the batch: after n rows failed_records holds exactly the failing rows
\* among them, in file order, each once, with the row's data; the commit comes
\* only when every row has been processed.
C5_FailedRowsInFileOrder ==
    \A r \in DOMAIN up :
        ReachedRows(up[r])
        => LET u == up[r]
               done == u.idx - 1
           IN /\ done \in 0..Len(u.file.rows)
              /\ [i \in 1..Len(u.failed_records) |-> u.failed_records[i].row]
                    = FailedRowsUpTo(u.file.rows, done)
              /\ u.success_count + Len(u.failed_records) = done
              /\ Len(u.staged) = u.success_count
              /\ u.pc = "done" => done = Len(u.file.rows)

\* C5 witness: an upload finished whose first row failed and whose second row
\* was nevertheless validated and staged.
C5_Witness ==
    \E r \in DOMAIN up :
        /\ ReachedRows(up[r]) /\ up[r].pc = "done"
        /\ Len(up[r].file.rows) >= 2
        /\ ~ValidateRow(up[r].file.rows[1]).ok
        /\ ValidateRow(up[r].file.rows[2]).ok
        /\ Len(up[r].failed_records) >= 1
        /\ up[r].success_count >= 1

\* the request of a step was for one integration, by id
ById(q) == q.op \in {"get", "update", "delete", "toggle"}

\* C6: get, update, delete and toggle-status of an integration that exists are
\* refused with 403 to a non-admin whose user_id is not the owner's, and the
\* store stays as it was; an admin or the owner is not refused; an id that is
\* not in the store is answered 404, which is not the 403 answer, and the store
\* stays as it was.
C6_OwnershipScopesAccess ==
    [][LET q == last'.req
           ans == last'.resp
           found == {i \in store : i.integration_id = q.id}
       IN ById(q)
          => /\ found = {} => (ans = NotFound /\ store' = store)
             /\ \A i \in found :
                   /\ (~q.token.is_admin /\ HasUser(q.token) /\ q.token.user_id # i.user_id)
                      => (ans = AccessDenied /\ store' = store)
                   /\ (q.token.is_admin \/ (HasUser(q.token) /\ q.token.user_id = i.user_id))
                      => (ans # AccessDenied /\ ans # NotFound)
             /\ NotFound.status_code # AccessDenied.status_code
             /\ NotFound.error_code # AccessDenied.error_code]_vars

\* C6 witness: a member was refused the deletion of another member's
\* integration, which is still in the store.
C6_Witness ==
    /\ last.req.op = "delete"
    /\ last.resp = AccessDenied
    /\ \E i \in store : i.integration_id = last.req.id /\ i.user_id # last.req.token.user_id

\* a toggle-status request that was answered 200
ToggleStep(q, ans) == q.op = "toggle" /\ IsEnvelope(ans) /\ ans.status_code = 200

\* C7 as stated: a toggle turns active into inactive and inactive into active,
\* never yields pending or failed, and changes no status except between active
\* and inactive.
C7_ToggleOnlyActiveInactive ==
    [][ToggleStep(last'.req, last'.resp)
       => \A old \in Found(store, last'.req.id), new \in Found(store', last'.req.id) :
             /\ old.status = "active" => new.status = "inactive"
             /\ old.status = "inactive" => new.status = "active"
             /\ new.status \notin {"pending", "failed"}
             /\ old.status # new.status
                => {old.status, new.status} = {"active", "inactive"}]_vars

\* C7 amended: a toggle turns active into inactive and every other status
\* (inactive, pending, failed) into active; it never yields pending or failed,
\* changes nothing else of the row or of the store, and reports the new status.
C7_ToggleActiveUnlessActive ==
    [][ToggleStep(last'.req, last'.resp)
       => \E old \in Found(store, last'.req.id) :
             LET new == [old EXCEPT !.status = IF old.status = "active" THEN "inactive"
                                               ELSE "active"]
             IN /\ store' = (store \ {old}) \cup {new}
                /\ new.status \in {"active", "inactive"}
                /\ last'.resp.data.new_status = new.status
                /\ nextId' = nextId]_vars

\* C7 witness: a toggle was answered 200 and left its integration active.
C7_Witness ==
    /\ ToggleStep(last.req, last.resp)
    /\ last.resp.data.new_status = "active"
    /\ \E i \in store : i.integration_id = last.req.id /\ i.status = "active"

\* C8: no two rows of the store share an integration_key.
C8_KeysUnique ==
    \A a, b \in store :
        a.integration_id # b.integration_id => a.integration_key # b.integration_key

\* C8 witness: the store holds two rows, a single-record request was rejected
\* by the store, and an upload repeating a key has finished.
C8_Witness ==
    /\ Cardinality(store) = 2
    /\ last.resp = Raised("IntegrityError")
    /\ \E r \in DOMAIN up :
          /\ Started(up[r]) /\ up[r].pc = "done"
          /\ Len(up[r].staged) = 2
          /\ up[r].staged[1].integration_key = up[r].staged[2].integration_key

\* C9, the states: while rows remain nothing has been committed, and an upload
\* that reached its rows ends with exactly one commit, every row processed and
\* either all of its staged rows written or none.
C9_CommitState ==
    \A r \in DOMAIN up :
        ReachedRows(up[r])
        => LET u == up[r]
           IN /\ u.pc = "rows" => (u.ncommit = 0 /\ u.inserted = {})
              /\ u.pc = "done"
                 => /\ u.ncommit = 1
                    /\ u.idx = Len(u.file.rows) + 1
                    /\ Cardinality(u.inserted) \in {0, Len(u.staged)}

\* C9, the steps: processing a row leaves the store as it is, and the commit
\* step adds all of the staged rows or leaves the store as it is.
C9_CommitStep ==
    \A r \in DOMAIN up :
        (up'[r] # up[r] /\ ReachedRows(up'[r]))
        => /\ up'[r].pc = "rows" => (store' = store /\ nextId' = nextId)
           /\ up'[r].pc = "done"
              => \/ store' = store
                 \/ /\ store \subseteq store'
                    /\ Cardinality(store' \ store) = Len(up[r].staged)
                    /\ \A i \in 1..Len(up[r].staged) :
                          \E w \in store' \ store :
                             \A c \in DOMAIN up[r].staged[i] : w[c] = up[r].staged[i][c]

\* C9: a bulk upload commits once, after all rows, and writes all of its staged
\* rows or none; no staged row reaches the store before that commit.
C9_SingleCommitAllOrNone == []C9_CommitState /\ [][C9_CommitStep]_vars

\* C9 witness: two uploads have finished, each after one commit; one of them
\* staged two rows and had its commit rejected, the other staged nothing.
C9_Witness ==
    \E r1, r2 \in DOMAIN up :
        /\ r1 # r2
        /\ ReachedRows(up[r1]) /\ up[r1].pc = "done" /\ up[r1].ncommit = 1
        /\ ReachedRows(up[r2]) /\ up[r2].pc = "done" /\ up[r2].ncommit = 1
        /\ Len(up[r1].staged) = 2 /\ up[r1].resp = Raised("IntegrityError")
        /\ up[r2].staged = <<>> /\ IsEnvelope(up[r2].resp)

\* C10: every object the upload stages has a value for each non-nullable
\* column (integration_key, user_id, account_id, private_key_file, email) and
\* status active, and a batch of valid rows with distinct keys that are not in
\* the store is accepted by the commit.
C10_StagedRowsComplete ==
    \A r \in DOMAIN up :
        Started(up[r])
        => /\ \A i \in 1..Len(up[r].staged) :
                 /\ \A c \in {"integration_key", "user_id", "account_id",
                              "private_key_file", "email"} : c \in DOMAIN up[r].staged[i]
                 /\ up[r].staged[i].status = "active"
           /\ (up[r].pc = "done" /\ up[r].ncommit = 1
               /\ (\A i, j \in 1..Len(up[r].staged) :
                     up[r].staged[i].integration_key = up[r].staged[j].integration_key => i = j)
               /\ (\A k \in 1..Len(up[r].staged), w \in store \ up[r].inserted :
                     w.integration_key # up[r].staged[k].integration_key))
              => Cardinality(up[r].inserted) = Len(up[r].staged)

====
